---- MODULE Spec2Model ----
(***************************************************************************)
(* A model of costometer's MLE/MAP aggregation (costometer/utils/          *)
(* analysis_utils.py and trace_utils.py): get_best_parameters, the prior   *)
(* builders, the trial-by-trial likelihood check and its cache, the        *)
(* analysis session (__init__, load_optimization_data,                     *)
(* query_optimization_data) and get_states_for_trace.                      *)
(*                                                                         *)
(* Numbers.  Log-likelihoods and log-masses are integers in units of 1e-3  *)
(* nat ("milli-nats"); probability masses are exact rationals <<num, den>>.*)
(***************************************************************************)
EXTENDS Integers, Sequences, FiniteSets, TLC

VARIABLES
    pc,                     \* which function is running / how it ended
    df,                     \* get_best_parameters: the table after reset_index and num_constant
    it,                     \* get_best_parameters: number of (prior, subset) passes completed
    curr_data,              \* get_best_parameters: the filtered, scored table of the last pass
    best_parameter_values,  \* get_best_parameters: (prior, subset) -> best-row table
    softmax_df,             \* add_cost_priors_to_temp_priors: the rows of the softmax table
    temp_prior_details,     \* add_cost_priors_to_temp_priors: prior name -> rv, possible_temps
    categoricals,           \* add_cost_priors_to_temp_priors: what get_prior returned in the last pass
    full_priors,            \* add_cost_priors_to_temp_priors: prior name -> parameter -> value -> mass
    participants,           \* compute_trial_by_trial_likelihoods: pid -> mle of the queried row, trace
    trial_by_trial,         \* compute_trial_by_trial_likelihoods: pid -> per-trial log-likelihoods
    trace_actions,          \* get_states_for_trace: the actions to replay
    env_log,                \* get_states_for_trace: what env.step returned, call by call
    resulting_trace,        \* get_states_for_trace: rewards, states, finished
    trial_by_trial_file,    \* get_trial_by_trial_likelihoods: the cache file on disk
    models_mapping,         \* analysis_details.trial_by_trial_models_mapping, in item order
    call_log,               \* get_trial_by_trial_likelihoods: what each call did
    trial_by_trial_df,      \* get_trial_by_trial_likelihoods: the returned table
    simulated,              \* analysis_details.simulated
    included_parameters,    \* analysis_details.included_parameters
    dfs,                    \* self.dfs["mouselab-mdp"]: one row per trial
    mle_and_map_files,      \* pid -> what the participant's grid-search file holds
    optimization_data,      \* self.optimization_data
    full_df,                \* what the last load_optimization_data returned
    model_name_mapping,     \* self.model_name_mapping
    loads,                  \* number of load_optimization_data calls made
    query,                  \* query_optimization_data: the arguments of the last call
    query_result            \* query_optimization_data: what the last call returned

sel_vars == <<df, it, curr_data, best_parameter_values>>
prior_vars == <<softmax_df, temp_prior_details, categoricals, full_priors>>
trial_vars == <<participants, trial_by_trial>>
trace_vars == <<trace_actions, env_log, resulting_trace>>
cache_vars == <<trial_by_trial_file, models_mapping, call_log, trial_by_trial_df>>
session_vars ==
    <<simulated, included_parameters, dfs, mle_and_map_files, optimization_data,
      full_df, model_name_mapping, loads, query, query_result>>
vars == <<pc, sel_vars, prior_vars, trial_vars, trace_vars, cache_vars, session_vars>>

\* the fields each function leaves alone
not_sel_vars == <<prior_vars, trial_vars, trace_vars, cache_vars, session_vars>>
not_prior_vars == <<sel_vars, trial_vars, trace_vars, cache_vars, session_vars>>
not_trial_vars == <<sel_vars, prior_vars, trace_vars, cache_vars, session_vars>>
not_trace_vars == <<sel_vars, prior_vars, trial_vars, cache_vars, session_vars>>
not_cache_vars == <<sel_vars, prior_vars, trial_vars, trace_vars, session_vars>>
not_session_vars == <<sel_vars, prior_vars, trial_vars, trace_vars, cache_vars>>

(***************************************************************************)
(* Bounds of the model                                                     *)
(***************************************************************************)
MaxRows == 2
MaxEntries == 2
MaxTemps == 2
MaxTrials == 2
MaxActions == 2
MaxModels == 2
MaxCalls == 2
MaxTrialRows == 3
MaxLoads == 2

(***************************************************************************)
(* Generic helpers                                                         *)
(***************************************************************************)
Range(s) == {s[i] : i \in 1..Len(s)}

RECURSIVE SumOver(_, _)
\* sum of f[x] over the finite set S
SumOver(S, f) ==
    IF S = {} THEN 0
    ELSE LET x == CHOOSE y \in S : TRUE IN f[x] + SumOver(S \ {x}, f)

\* lexicographic order on integer tuples of one length
LexLess(a, b) ==
    \E i \in 1..Len(a) :
        /\ a[i] < b[i]
        /\ \A j \in 1..(i - 1) : a[j] = b[j]

RECURSIVE SortedSeq(_)
\* the tuples of S in ascending lexicographic order
SortedSeq(S) ==
    IF S = {} THEN <<>>
    ELSE LET m == CHOOSE x \in S : \A y \in S \ {x} : LexLess(x, y)
         IN <<m>> \o SortedSeq(S \ {m})

(***************************************************************************)
(* Inputs of get_best_parameters                                           *)
(***************************************************************************)
\* cost_details["constant_values"]: parameter -> reference constant
ConstantValues == [temp |-> 1, cost |-> 1]

\* np.log of a rational mass num/den with num, den in 1..4, in milli-nats
LnMilli == <<0, 693, 1099, 1386>>
NpLog(mass) == LnMilli[mass[1]] - LnMilli[mass[2]]

\* priors: prior name -> parameter -> value -> mass
Priors ==
    [uniform |-> [temp |-> (1 :> <<1, 2>>) @@ (2 :> <<1, 2>>),
                  cost |-> (1 :> <<1, 2>>) @@ (2 :> <<1, 2>>)],
     shaped  |-> [temp |-> (1 :> <<3, 4>>) @@ (2 :> <<1, 4>>),
                  cost |-> (1 :> <<1, 2>>) @@ (2 :> <<1, 2>>)]]

\* iteration order of priors.items() and of the keys of priors["uniform"]
PriorOrder == <<"uniform", "shaped">>
UniformKeys == <<"temp", "cost">>

\* the rows a grid-search table can hold; every parameter value lies on the
\* grid the priors are defined over, and every table has a sim_ column
Pids == {0, 1}
SimCosts == {0, 1}
ParamVals == {1, 2}
Mles == {-10000, -11099}
InputRows ==
    [trace_pid : Pids, sim_cost : SimCosts, temp : ParamVals, cost : ParamVals,
     mle : Mles]

(***************************************************************************)
(* get_best_parameters                                                     *)
(***************************************************************************)
\* row[param] == val summed over constant_values.items()
NumConstant(row) ==
    Cardinality({param \in DOMAIN ConstantValues : row[param] = ConstantValues[param]})

\* df.reset_index() followed by the num_constant column
PrepareTable(table) ==
    [i \in 1..Len(table) |->
        table[i] @@ [index |-> i - 1, num_constant |-> NumConstant(table[i])]]

\* itertools.combinations(s, r): the r-tuples of s in index order
Combinations(s, r) ==
    LET idx == SortedSeq({q \in [1..r -> 1..Len(s)] :
                            \A i \in 1..(r - 1) : q[i] < q[i + 1]})
    IN [k \in 1..Len(idx) |-> [i \in 1..r |-> s[idx[k][i]]]]

RECURSIVE PowersetFrom(_, _)
PowersetFrom(s, r) ==
    IF r > Len(s) THEN <<>> ELSE Combinations(s, r) \o PowersetFrom(s, r + 1)

\* the power set without the empty tuple
powerset_NonEmpty(s) == PowersetFrom(s, 1)

\* more_itertools.powerset(s): every tuple of s, shortest first
powerset(s) == PowersetFrom(s, 0)

RECURSIVE PassesFrom(_)
\* the (prior, subset) passes of the two nested loops, in order
PassesFrom(k) ==
    IF k > Len(PriorOrder) THEN <<>>
    ELSE LET subsets == powerset(UniformKeys)
         IN [j \in 1..Len(subsets) |-> <<PriorOrder[k], subsets[j]>>]
            \o PassesFrom(k + 1)
Passes == PassesFrom(1)

\* a filter that keeps a row as soon as one parameter of subset is at its constant
RowInSubset_Any(row, subset) ==
    \/ Len(subset) = 0
    \/ Cardinality({i \in 1..Len(subset) :
                    row[subset[i]] = ConstantValues[subset[i]]}) >= 1

\* the row filter of one pass: every parameter of subset is at its constant
RowInSubset(row, subset) ==
    Cardinality({i \in 1..Len(subset) :
                    row[subset[i]] = ConstantValues[subset[i]]}) = Len(subset)

\* the prior term of every modeled parameter, those of subset included
MapScore_AllParams(row, prior_dict, subset) ==
    row.mle
    + SumOver(DOMAIN prior_dict,
              [param \in DOMAIN prior_dict |-> NpLog(prior_dict[param][row[param]])])

\* row["mle"] + sum of np.log(prior_dict[param][row[param]]) over the params kept
MapScore(row, prior_dict, subset) ==
    row.mle
    + SumOver({param \in DOMAIN prior_dict : param \notin Range(subset)},
              [param \in DOMAIN prior_dict |-> NpLog(prior_dict[param][row[param]])])

\* curr_data: filter, copy, reset_index(drop=True), add the map_<prior> column
CurrData(table, prior_type, subset) ==
    LET kept == SelectSeq(table, LAMBDA row : RowInSubset(row, subset))
    IN [i \in 1..Len(kept) |->
            kept[i] @@ [map |-> MapScore(kept[i], Priors[prior_type], subset)]]

\* list(curr_data): the columns, and `"sim_" in col` for each of them
Columns == <<"index", "trace_pid", "sim_cost", "temp", "cost", "mle", "num_constant", "map">>
ContainsSim ==
    [index |-> FALSE, trace_pid |-> FALSE, sim_cost |-> TRUE, temp |-> FALSE,
     cost |-> FALSE, mle |-> FALSE, num_constant |-> FALSE, map |-> FALSE]
\* a column test that matches any name holding "_" instead of "sim_"
ContainsUnderscore ==
    [index |-> FALSE, trace_pid |-> TRUE, sim_cost |-> TRUE, temp |-> FALSE,
     cost |-> FALSE, mle |-> FALSE, num_constant |-> TRUE, map |-> FALSE]
SimCols_AnyUnderscore == SelectSeq(Columns, LAMBDA col : ContainsUnderscore[col])
SimCols == SelectSeq(Columns, LAMBDA col : ContainsSim[col])

\* ["trace_pid"] + sim_cols, and a row's value of that key
GroupCols == <<"trace_pid">> \o SimCols
GroupKey(row) == [i \in 1..Len(GroupCols) |-> row[GroupCols[i]]]

\* the keys of curr_data.groupby(["trace_pid"] + sim_cols), sorted as pandas sorts them
GroupKeys(table) == SortedSeq({GroupKey(table[i]) : i \in 1..Len(table)})
Group(table, key) == SelectSeq(table, LAMBDA row : GroupKey(row) = key)

\* the smallest score of the group instead of the largest
MaxValue_Min(table, key) ==
    LET g == Group(table, key)
    IN CHOOSE m \in {g[i].map : i \in 1..Len(g)} :
           \A i \in 1..Len(g) : g[i].map >= m

\* max_values[key]: the largest map_<prior> of the group
MaxValue(table, key) ==
    LET g == Group(table, key)
    IN CHOOSE m \in {g[i].map : i \in 1..Len(g)} :
           \A i \in 1..Len(g) : g[i].map <= m

\* the rows of a group which tie for the max MAP
TiedRows(table, key) ==
    SelectSeq(Group(table, key), LAMBDA row : row.map = MaxValue(table, key))

\* the first tied row, whatever its num_constant
IdxMax_First(rows) == 1

\* the last row holding the largest num_constant
IdxMax_Last(rows) ==
    CHOOSE i \in 1..Len(rows) :
        /\ \A j \in 1..Len(rows) : rows[j].num_constant <= rows[i].num_constant
        /\ \A j \in (i + 1)..Len(rows) : rows[j].num_constant < rows[i].num_constant

\* rows["num_constant"].idxmax(): the first row holding the largest num_constant
IdxMax(rows) ==
    CHOOSE i \in 1..Len(rows) :
        /\ \A j \in 1..Len(rows) : rows[j].num_constant <= rows[i].num_constant
        /\ \A j \in 1..(i - 1) : rows[j].num_constant < rows[i].num_constant

\* pd.concat of the one row chosen from every group
BestParamRows(table) ==
    LET keys == GroupKeys(table)
    IN [k \in 1..Len(keys) |->
            LET tied == TiedRows(table, keys[k]) IN tied[IdxMax(tied)]]

\* the assertion: every key of the result is counted once
AssertOneRowPerKey(best) ==
    \A i \in 1..Len(best) :
        Cardinality({j \in 1..Len(best) : GroupKey(best[j]) = GroupKey(best[i])}) = 1

Tables == UNION {[1..n -> InputRows] : n \in 1..MaxRows}

\* the fields of the functions that are not running
SelIdle ==
    /\ df = <<>>
    /\ it = 0
    /\ curr_data = <<>>
    /\ best_parameter_values = <<>>
PriorIdle ==
    /\ softmax_df = <<>>
    /\ temp_prior_details = <<>>
    /\ categoricals = <<>>
    /\ full_priors = <<>>
TrialIdle ==
    /\ participants = <<>>
    /\ trial_by_trial = <<>>
TraceIdle ==
    /\ trace_actions = <<>>
    /\ env_log = <<>>
    /\ resulting_trace = <<>>
CacheIdle ==
    /\ trial_by_trial_file = <<>>
    /\ models_mapping = <<>>
    /\ call_log = <<>>
    /\ trial_by_trial_df = <<>>
SessionIdle ==
    /\ simulated = FALSE
    /\ included_parameters = {}
    /\ dfs = <<>>
    /\ mle_and_map_files = <<>>
    /\ optimization_data = <<>>
    /\ full_df = <<>>
    /\ model_name_mapping = <<>>
    /\ loads = 0
    /\ query = <<>>
    /\ query_result = <<>>

Init ==
    /\ pc = "get_best_parameters"
    /\ df \in {PrepareTable(table) : table \in Tables}
    /\ it = 0
    /\ curr_data = <<>>
    /\ best_parameter_values = <<>>
    /\ PriorIdle
    /\ TrialIdle
    /\ TraceIdle
    /\ CacheIdle
    /\ SessionIdle

\* one pass of the loops: the table of the pass is stored
StorePass ==
    /\ pc = "get_best_parameters"
    /\ it < Len(Passes)
    /\ LET pass == Passes[it + 1]
           data == CurrData(df, pass[1], pass[2])
       IN /\ data # <<>>
          /\ AssertOneRowPerKey(BestParamRows(data))
          /\ curr_data' = data
          /\ best_parameter_values' =
                 best_parameter_values @@ (pass :> BestParamRows(data))
    /\ it' = it + 1
    /\ UNCHANGED <<pc, df, not_sel_vars>>

\* one pass of the loops raises: no row is left to concatenate (pd.concat of
\* an empty list), or the assertion fails
FailPass ==
    /\ pc = "get_best_parameters"
    /\ it < Len(Passes)
    /\ LET pass == Passes[it + 1]
           data == CurrData(df, pass[1], pass[2])
       IN /\ \/ data = <<>>
             \/ ~AssertOneRowPerKey(BestParamRows(data))
          /\ curr_data' = data
    /\ pc' = "raised"
    /\ UNCHANGED <<df, it, best_parameter_values, not_sel_vars>>

\* return best_parameter_values
Return ==
    /\ pc = "get_best_parameters"
    /\ it = Len(Passes)
    /\ pc' = "returned"
    /\ UNCHANGED <<sel_vars, not_sel_vars>>

Next == StorePass \/ FailPass \/ Return

Spec == Init /\ [][Next]_vars

(***************************************************************************)
(* Properties of get_best_parameters                                       *)
(***************************************************************************)
\* the group key of the specification: trace_pid with every sim_ column
PidAndSim(row) == <<row.trace_pid, row.sim_cost>>
StoredPasses == DOMAIN best_parameter_values
RowsOf(table) == {table[i] : i \in 1..Len(table)}
\* the pass whose filtered table curr_data holds
LastPass == IF pc = "raised" THEN Passes[it + 1] ELSE Passes[it]
PassDone == it > 0 \/ pc = "raised"

\* C1: every best-row table stored under (prior, S) holds at most one row
\* for each group key (trace_pid together with the sim_ columns); a table
\* with a repeated key is never stored, the call raises instead.
C1_AtMostOneRowPerGroup ==
    \A pass \in StoredPasses :
        LET best == best_parameter_values[pass]
        IN \A i, j \in 1..Len(best) :
               PidAndSim(best[i]) = PidAndSim(best[j]) => i = j

\* a returned result whose input held two rows of one group
C1_Witness ==
    /\ pc = "returned"
    /\ Len(df) = 2
    /\ PidAndSim(df[1]) = PidAndSim(df[2])
    /\ df[1].num_constant # df[2].num_constant
    /\ \A pass \in StoredPasses : Len(best_parameter_values[pass]) = 1

\* the input rows of a group that pass the filter of subset
FilteredGroup(key, subset) ==
    {i \in 1..Len(df) :
        /\ PidAndSim(df[i]) = key
        /\ \A param \in Range(subset) : df[i][param] = ConstantValues[param]}

\* the posterior score of a row as the spec states it: mle plus the log of the
\* prior mass of the row's value, over the modeled parameters outside subset
LogMass(prior, param, row) == NpLog(Priors[prior][param][row[param]])
Posterior(row, prior, subset) ==
    row.mle
    + (IF "temp" \in DOMAIN Priors[prior] \ Range(subset)
       THEN LogMass(prior, "temp", row) ELSE 0)
    + (IF "cost" \in DOMAIN Priors[prior] \ Range(subset)
       THEN LogMass(prior, "cost", row) ELSE 0)

\* C2: the row selected for a group has a posterior score that is at least
\* the score of every row of the group that passed the filter for S.
C2_SelectedRowHasMaxScore ==
    \A pass \in StoredPasses :
        LET best == best_parameter_values[pass]
        IN \A k \in 1..Len(best) :
               \A i \in FilteredGroup(PidAndSim(best[k]), pass[2]) :
                   best[k].map >= Posterior(df[i], pass[1], pass[2])

\* a stored table whose group held two filtered rows of different score
C2_Witness ==
    \E pass \in StoredPasses :
        LET best == best_parameter_values[pass]
        IN \E k \in 1..Len(best) :
               \E i \in FilteredGroup(PidAndSim(best[k]), pass[2]) :
                   best[k].map > Posterior(df[i], pass[1], pass[2])

\* C3: among the rows of a group that tie for the maximum score, the selected
\* row has the greatest num_constant.
C3_TieBrokenByNumConstant ==
    \A pass \in StoredPasses :
        LET best == best_parameter_values[pass]
        IN \A k \in 1..Len(best) :
               \A i \in FilteredGroup(PidAndSim(best[k]), pass[2]) :
                   Posterior(df[i], pass[1], pass[2]) = best[k].map
                       => Cardinality({param \in DOMAIN ConstantValues :
                                          df[i][param] = ConstantValues[param]})
                              <= best[k].num_constant

\* a stored table whose selected row tied with an earlier row of fewer constants
C3_Witness ==
    \E pass \in StoredPasses :
        LET best == best_parameter_values[pass]
        IN \E k \in 1..Len(best) :
               \E i \in FilteredGroup(PidAndSim(best[k]), pass[2]) :
                   /\ Posterior(df[i], pass[1], pass[2]) = best[k].map
                   /\ df[i].num_constant < best[k].num_constant
                   /\ df[i].index < best[k].index

\* C4: the score of every filtered row is its mle plus the log prior mass of
\* exactly the modeled parameters that are not in S.
C4_ScoreIsMlePlusLogPrior ==
    /\ PassDone =>
           \A i \in 1..Len(curr_data) :
               curr_data[i].map = Posterior(curr_data[i], LastPass[1], LastPass[2])
    /\ \A pass \in StoredPasses :
           LET best == best_parameter_values[pass]
           IN \A k \in 1..Len(best) :
                  best[k].map = Posterior(best[k], pass[1], pass[2])

\* a pass under the shaped prior with temp held constant and cost scored
C4_Witness ==
    /\ PassDone
    /\ LastPass = <<"shaped", <<"temp">>>>
    /\ \E i \in 1..Len(curr_data) :
           /\ curr_data[i].map = curr_data[i].mle - 693
           /\ curr_data[i].map # curr_data[i].mle + LogMass("shaped", "temp", curr_data[i])
                                  + LogMass("shaped", "cost", curr_data[i])

\* C5: the candidates of a pass are exactly the input rows in which every
\* parameter of S is at its constant value, and every stored row is one.
C5_CandidatesAreFilteredRows ==
    /\ PassDone =>
           {curr_data[i].index : i \in 1..Len(curr_data)}
               = {df[i].index : i \in
                     {j \in 1..Len(df) :
                         \A param \in Range(LastPass[2]) :
                             df[j][param] = ConstantValues[param]}}
    /\ \A pass \in StoredPasses :
           LET best == best_parameter_values[pass]
           IN \A k \in 1..Len(best) :
                  \A param \in Range(pass[2]) : best[k][param] = ConstantValues[param]

\* a pass over both parameters that kept one input row and dropped another
\* which held only one of them at its constant
C5_Witness ==
    /\ PassDone
    /\ LastPass[2] = <<"temp", "cost">>
    /\ Len(curr_data) = 1
    /\ \E i \in 1..Len(df) : df[i].num_constant = 1

\* C6: a returned result holds, for every prior name, one table for every
\* subset of the uniform parameter set (2^n tables), and no other key.
C6_OneTablePerPriorAndSubset ==
    pc = "returned" =>
        /\ \A pass \in StoredPasses :
               /\ pass[1] \in DOMAIN Priors
               /\ Range(pass[2]) \subseteq DOMAIN Priors["uniform"]
        /\ \A prior \in DOMAIN Priors :
               \A S \in SUBSET (DOMAIN Priors["uniform"]) :
                   Cardinality({pass \in StoredPasses :
                                   pass[1] = prior /\ Range(pass[2]) = S}) = 1
        /\ Cardinality(StoredPasses)
               = Cardinality(DOMAIN Priors) * Cardinality(SUBSET (DOMAIN Priors["uniform"]))

\* a returned result
C6_Witness ==
    /\ pc = "returned"
    /\ <<"shaped", <<>>>> \in StoredPasses
    /\ <<"shaped", <<"temp", "cost">>>> \in StoredPasses

\* C7: every group of the input table has exactly one row in every stored
\* table, or the call raises.
C7_EveryGroupHasOneRow ==
    pc = "returned" =>
        \A pass \in StoredPasses :
            \A i \in 1..Len(df) :
                Cardinality({k \in 1..Len(best_parameter_values[pass]) :
                                PidAndSim(best_parameter_values[pass][k]) = PidAndSim(df[i])})
                    = 1

\* C18: when rows of a group tie on the maximum score and on the maximum
\* num_constant, exactly one of them is selected and it is the first of
\* them in the row order of the input table.
C18_FirstRowWinsFullTie ==
    \A pass \in StoredPasses :
        LET best == best_parameter_values[pass]
        IN \A k \in 1..Len(best) :
               /\ Cardinality({j \in 1..Len(best) :
                                  PidAndSim(best[j]) = PidAndSim(best[k])}) = 1
               /\ \A i \in FilteredGroup(PidAndSim(best[k]), pass[2]) :
                      (/\ Posterior(df[i], pass[1], pass[2]) = best[k].map
                       /\ df[i].num_constant = best[k].num_constant)
                          => best[k].index <= df[i].index

\* a stored row that tied on score and num_constant with a later input row
\* of other parameter values
C18_Witness ==
    \E pass \in StoredPasses :
        LET best == best_parameter_values[pass]
        IN \E k \in 1..Len(best) :
               \E i \in FilteredGroup(PidAndSim(best[k]), pass[2]) :
                   /\ Posterior(df[i], pass[1], pass[2]) = best[k].map
                   /\ df[i].num_constant = best[k].num_constant
                   /\ best[k].index < df[i].index
                   /\ df[i].temp # best[k].temp


(***************************************************************************)
(* get_prior and add_cost_priors_to_temp_priors                            *)
(*                                                                         *)
(* A table entry is a number or a string: [str |-> FALSE, v |-> n] is the  *)
(* number n, [str |-> TRUE, v |-> 0] the string "None".  A mass is the     *)
(* exact quotient <<num, den>>; den = 0 is the nan (or inf) numpy gives    *)
(* for a float division by zero.                                           *)
(***************************************************************************)
Num(n) == [str |-> FALSE, v |-> n]
NoneStr == [str |-> TRUE, v |-> 0]

\* cost_details["constant_values"] and additional_params of the prior builder
PriorConstantValues == [temp |-> 1, gamma |-> 1, cost |-> 1]
AdditionalParams == <<"gamma">>

\* the rows of softmax_df: an additional parameter and a cost parameter
SoftmaxRows == [gamma : {Num(0), Num(1)}, cost : {Num(1), Num(2), Num(3), NoneStr}]

\* rv.pdf(val) for the frozen distributions a prior can name, as integer
\* weights at the locations 0..3: flat, decreasing, and one whose support
\* lies away from every location
RvNames == {"flat", "decreasing", "off_support"}
RvPdf ==
    [flat        |-> <<1, 1, 1, 1>>,
     decreasing  |-> <<4, 2, 1, 0>>,
     off_support |-> <<0, 0, 0, 0>>]
pdf(rv, val) == RvPdf[rv][val + 1]

\* np.log10(possible_temps) + 1 on the temperatures of the grid
Log10Plus1 == (1 :> 1) @@ (10 :> 2)
TempLists == UNION {[1..n -> {1, 10}] : n \in 1..MaxTemps}

RECURSIVE SumSeq(_)
SumSeq(s) == IF s = <<>> THEN 0 ELSE Head(s) + SumSeq(Tail(s))

\* get_prior: the density at every candidate over the sum of the densities
get_prior(rv, possible_vals) ==
    LET normalizing_factor == SumSeq([i \in 1..Len(possible_vals) |-> pdf(rv, possible_vals[i])])
    IN [vals  |-> possible_vals,
        probs |-> [i \in 1..Len(possible_vals) |->
                      <<pdf(rv, possible_vals[i]), normalizing_factor>>]]

\* dict(zip(keys, values)): a repeated key keeps its last value
DictZip(keys, values) ==
    [k \in Range(keys) |->
        values[CHOOSE i \in 1..Len(keys) :
                  keys[i] = k /\ \A j \in (i + 1)..Len(keys) : keys[j] # k]]

\* the column with every entry kept, strings included
NumericValues_NoFilter(column) == column

\* column[column.apply(lambda entry: not isinstance(entry, str))]
NumericValues(column) == SelectSeq(column, LAMBDA entry : ~entry.str)

RECURSIVE SortedEntries(_)
SortedEntries(S) ==
    IF S = {} THEN <<>>
    ELSE LET m == CHOOSE x \in S : \A y \in S : x.v <= y.v
         IN <<m>> \o SortedEntries(S \ {m})

\* np.unique: the distinct entries, sorted
Unique(values) == SortedEntries(Range(values))

Column(param) == [i \in 1..Len(softmax_df) |-> softmax_df[i][param]]

\* the Categorical get_prior returns for the temperatures of a prior
TempCategorical(prior_inputs) ==
    get_prior(prior_inputs.rv,
              [i \in 1..Len(prior_inputs.possible_temps) |->
                  Log10Plus1[prior_inputs.possible_temps[i]]])

\* the Categorical get_prior returns for an additional parameter
AdditionalCategorical(prior_inputs, additional_param) ==
    LET unique_args == Unique(NumericValues(Column(additional_param)))
    IN get_prior(prior_inputs.rv,
                 [i \in 1..Len(unique_args) |-> 1 - unique_args[i].v])

\* set(list(cost_details["constant_values"])) - set(["temp"] + additional_params)
UniformParams == DOMAIN PriorConstantValues \ ({"temp"} \cup Range(AdditionalParams))

\* the uniform prior of a cost parameter: 1 / len(unique_args) for every entry
UniformPrior(cost_parameter_arg) ==
    LET unique_args == Unique(NumericValues(Column(cost_parameter_arg)))
    IN DictZip(unique_args,
               [i \in 1..Len(unique_args) |-> <<1, Len(unique_args)>>])

\* priors: the per-parameter mappings of one prior
PriorsOf(prior_inputs) ==
    [param \in {"temp"} \cup Range(AdditionalParams) \cup UniformParams |->
        IF param = "temp"
        THEN DictZip([i \in 1..Len(prior_inputs.possible_temps) |->
                         Num(prior_inputs.possible_temps[i])],
                     TempCategorical(prior_inputs).probs)
        ELSE IF param \in Range(AdditionalParams)
        THEN DictZip(Unique(NumericValues(Column(param))),
                     AdditionalCategorical(prior_inputs, param).probs)
        ELSE UniformPrior(param)]

\* the assertion of the builder: np.sum of a dict view is the view itself,
\* so np.all tests that no mapping is empty, and nothing about the masses
AssertPriors(priors) == \A param_key \in DOMAIN priors : DOMAIN priors[param_key] # {}

InitPrior ==
    /\ pc = "add_cost_priors_to_temp_priors"
    /\ softmax_df \in UNION {[1..n -> SoftmaxRows] : n \in 1..MaxEntries}
    /\ \E possible_temps \in TempLists :
           temp_prior_details \in
               [Range(PriorOrder) -> [rv : RvNames, possible_temps : {possible_temps}]]
    /\ categoricals = <<>>
    /\ full_priors = <<>>
    /\ SelIdle
    /\ TrialIdle
    /\ TraceIdle
    /\ CacheIdle
    /\ SessionIdle

\* one pass of the loop over temp_prior_details: the prior is stored
BuildPrior ==
    /\ pc = "add_cost_priors_to_temp_priors"
    /\ \E k \in 1..Len(PriorOrder) :
           LET prior == PriorOrder[k]
               prior_inputs == temp_prior_details[prior]
           IN /\ Cardinality(DOMAIN full_priors) = k - 1
              /\ AssertPriors(PriorsOf(prior_inputs))
              /\ categoricals' =
                     [param \in {"temp"} \cup Range(AdditionalParams) |->
                         IF param = "temp" THEN TempCategorical(prior_inputs)
                         ELSE AdditionalCategorical(prior_inputs, param)]
              /\ full_priors' = full_priors @@ (prior :> PriorsOf(prior_inputs))
    /\ UNCHANGED <<pc, softmax_df, temp_prior_details, not_prior_vars>>

\* one pass of the loop raises: the assertion fails
BuildPriorFails ==
    /\ pc = "add_cost_priors_to_temp_priors"
    /\ \E k \in 1..Len(PriorOrder) :
           /\ Cardinality(DOMAIN full_priors) = k - 1
           /\ ~AssertPriors(PriorsOf(temp_prior_details[PriorOrder[k]]))
    /\ pc' = "raised"
    /\ UNCHANGED <<prior_vars, not_prior_vars>>

\* return full_priors
ReturnPriors ==
    /\ pc = "add_cost_priors_to_temp_priors"
    /\ Cardinality(DOMAIN full_priors) = Len(PriorOrder)
    /\ pc' = "returned"
    /\ UNCHANGED <<prior_vars, not_prior_vars>>

NextPrior == BuildPrior \/ BuildPriorFails \/ ReturnPriors

SpecPrior == InitPrior /\ [][NextPrior]_vars

(***************************************************************************)
(* Properties of the prior builders                                        *)
(***************************************************************************)
\* exact sum of the masses f[x], x in S, as a quotient
RECURSIVE SumMasses(_, _)
SumMasses(S, f) ==
    IF S = {} THEN <<0, 1>>
    ELSE LET x == CHOOSE y \in S : TRUE
             rest == SumMasses(S \ {x}, f)
         IN <<f[x][1] * rest[2] + rest[1] * f[x][2], f[x][2] * rest[2]>>
IsOne(q) == q[2] # 0 /\ q[1] = q[2]

\* C8: every prior that is constructed has masses summing to 1: the
\* probabilities get_prior returns for a non-empty candidate list, and every
\* per-parameter mapping of every prior the builder stores.
C8_MassesSumToOne ==
    /\ \A param \in DOMAIN categoricals :
           Len(categoricals[param].vals) > 0 =>
               IsOne(SumMasses(1..Len(categoricals[param].probs), categoricals[param].probs))
    /\ \A prior \in DOMAIN full_priors :
           \A param \in DOMAIN full_priors[prior] :
               IsOne(SumMasses(DOMAIN full_priors[prior][param], full_priors[prior][param]))

\* C9: the prior of every uniform cost parameter has exactly the distinct
\* non-string entries of the parameter's column as keys, each of mass 1/n.
C9_UniformPriorOverNumericValues ==
    \A prior \in DOMAIN full_priors :
        \A param \in DOMAIN PriorConstantValues \ {"temp", "gamma"} :
            LET mapping == full_priors[prior][param]
                observed == {softmax_df[i][param] : i \in 1..Len(softmax_df)}
                numbers == {entry \in observed : ~entry.str}
            IN /\ DOMAIN mapping = numbers
               /\ \A key \in DOMAIN mapping :
                      /\ ~key.str
                      /\ mapping[key][2] # 0
                      /\ mapping[key][1] * Cardinality(numbers) = mapping[key][2]

\* a stored prior built from a column holding two numbers and, among them, "None"
C9_Witness ==
    /\ "uniform" \in DOMAIN full_priors
    /\ \E i \in 1..Len(softmax_df) : softmax_df[i].cost = NoneStr
    /\ \E i \in 1..Len(softmax_df) : softmax_df[i].cost = Num(2)
    /\ DOMAIN full_priors["uniform"]["cost"] = {Num(2)}
    /\ full_priors["uniform"]["cost"][Num(2)] = <<1, 1>>

(***************************************************************************)
(* compute_trial_by_trial_likelihoods: the loop over the participants and  *)
(* its check of the summed trial likelihoods against the mle.  The replay  *)
(* of a trace through the policy (participant.compute_likelihood) is an    *)
(* input: per trial, the block label and the log-likelihoods of its        *)
(* actions, in milli-nats.                                                 *)
(***************************************************************************)
\* the tolerance of the assertion, 1e-3, in milli-nats
Tolerance == 1

\* self.analysis_details.blocks
DesignatedBlocks == {"test"}

TracePids == {0, 1}
TrialLikelihoods == {<<-5000>>, <<-2000, -3002>>}
Trials == [block : {"test", "training"}, ll : TrialLikelihoods]
Traces == UNION {[1..n -> Trials] : n \in 1..MaxTrials}
QueriedMles == {-10000, -10002}

\* sum(sum(trial_ll) for block, trial_ll in zip(...) if block in blocks)
SumTrialByTrial(trace) ==
    SumSeq([i \in 1..Len(trace) |->
               IF trace[i].block \in DesignatedBlocks THEN SumSeq(trace[i].ll) ELSE 0])

\* assert (sum_trial_by_trial - mle) < 1e-3
AssertLikelihood(sum_trial_by_trial, mle) == sum_trial_by_trial - mle < Tolerance

\* the participants are visited in the order of pid_to_best_params
NextPid == CHOOSE pid \in DOMAIN participants \ DOMAIN trial_by_trial :
               \A other \in DOMAIN participants \ DOMAIN trial_by_trial : pid <= other

InitTrial ==
    /\ pc = "compute_trial_by_trial_likelihoods"
    /\ participants \in [TracePids -> [mle : QueriedMles, trace : Traces]]
    /\ trial_by_trial = <<>>
    /\ SelIdle
    /\ PriorIdle
    /\ TraceIdle
    /\ CacheIdle
    /\ SessionIdle

\* one participant: the likelihoods are computed and pass the assertion
ComputeParticipant ==
    /\ pc = "compute_trial_by_trial_likelihoods"
    /\ DOMAIN trial_by_trial # DOMAIN participants
    /\ LET trace == participants[NextPid].trace
       IN /\ AssertLikelihood(SumTrialByTrial(trace), participants[NextPid].mle)
          /\ trial_by_trial' =
                 trial_by_trial @@ (NextPid :> [i \in 1..Len(trace) |-> trace[i].ll])
    /\ UNCHANGED <<pc, participants, not_trial_vars>>

\* one participant: the assertion fails
ComputeParticipantFails ==
    /\ pc = "compute_trial_by_trial_likelihoods"
    /\ DOMAIN trial_by_trial # DOMAIN participants
    /\ ~AssertLikelihood(SumTrialByTrial(participants[NextPid].trace),
                         participants[NextPid].mle)
    /\ pc' = "raised"
    /\ UNCHANGED <<trial_vars, not_trial_vars>>

\* return trial_by_trial
ReturnTrialByTrial ==
    /\ pc = "compute_trial_by_trial_likelihoods"
    /\ DOMAIN trial_by_trial = DOMAIN participants
    /\ pc' = "returned"
    /\ UNCHANGED <<trial_vars, not_trial_vars>>

NextTrial == ComputeParticipant \/ ComputeParticipantFails \/ ReturnTrialByTrial

SpecTrial == InitTrial /\ [][NextTrial]_vars

(***************************************************************************)
(* Properties of compute_trial_by_trial_likelihoods                        *)
(***************************************************************************)
\* C10: when the summed likelihoods of a participant's designated trials
\* differ from the participant's mle by more than 1e-3, in either direction,
\* the call raises and returns nothing.
C10_MismatchRaises ==
    pc = "returned" =>
        \A pid \in DOMAIN participants :
            LET diff == SumTrialByTrial(participants[pid].trace) - participants[pid].mle
            IN diff <= Tolerance /\ -diff <= Tolerance

(***************************************************************************)
(* get_states_for_trace (trace_utils.py).  The environment is external:    *)
(* env.reset() gives ResetState and every env.step(int(click)) returns a   *)
(* state, a reward and a done flag, recorded in env_log.  A done flag is   *)
(* a Python bool, 0 or 1 as an integer.                                    *)
(***************************************************************************)
ResetState == 0
Clicks == {1, 2}
StepStates == {1, 2}
StepRewards == {-1, 0}
DoneFlags == {0, 1}
ActionLists == UNION {[1..n -> Clicks] : n \in 0..MaxActions}

\* a loop body that leaves finished as it was
AppendStep_KeepFinished(trace, step) ==
    [rewards  |-> Append(trace.rewards, step.reward),
     states   |-> Append(trace.states, step.state),
     finished |-> trace.finished]

\* the body of the loop over the actions
AppendStep(trace, step) ==
    [rewards  |-> Append(trace.rewards, step.reward),
     states   |-> Append(trace.states, step.state),
     finished |-> step.done]

\* the state after env.reset() and the initial resulting_trace
InitTrace ==
    /\ pc = "get_states_for_trace"
    /\ trace_actions \in ActionLists
    /\ env_log = <<>>
    /\ resulting_trace = [rewards |-> <<>>, states |-> <<ResetState>>, finished |-> -1]
    /\ SelIdle
    /\ PriorIdle
    /\ TrialIdle
    /\ CacheIdle
    /\ SessionIdle

\* one pass of the loop: env.step(int(click)) and the three updates
StepTrace ==
    /\ pc = "get_states_for_trace"
    /\ Len(env_log) < Len(trace_actions)
    /\ \E state \in StepStates, reward \in StepRewards, done \in DoneFlags :
           LET step == [click |-> trace_actions[Len(env_log) + 1],
                        state |-> state, reward |-> reward, done |-> done]
           IN /\ env_log' = Append(env_log, step)
              /\ resulting_trace' = AppendStep(resulting_trace, step)
    /\ UNCHANGED <<pc, trace_actions, not_trace_vars>>

\* return resulting_trace
ReturnTrace ==
    /\ pc = "get_states_for_trace"
    /\ Len(env_log) = Len(trace_actions)
    /\ pc' = "returned"
    /\ UNCHANGED <<trace_vars, not_trace_vars>>

NextTrace == StepTrace \/ ReturnTrace

SpecTrace == InitTrace /\ [][NextTrace]_vars

(***************************************************************************)
(* Properties of get_states_for_trace                                      *)
(***************************************************************************)
\* C19: for n replayed actions the returned trace has n+1 states (the reset
\* state, then the state after each action, in order), n rewards in order,
\* and finished equal to the done flag of the last step; with no action it
\* has the reset state alone, no reward and finished = -1.
C19_TraceShape ==
    pc = "returned" =>
        LET n == Len(trace_actions)
        IN /\ Len(env_log) = n
           /\ \A i \in 1..n : env_log[i].click = trace_actions[i]
           /\ Len(resulting_trace.states) = n + 1
           /\ resulting_trace.states[1] = ResetState
           /\ \A i \in 1..n : resulting_trace.states[i + 1] = env_log[i].state
           /\ Len(resulting_trace.rewards) = n
           /\ \A i \in 1..n : resulting_trace.rewards[i] = env_log[i].reward
           /\ resulting_trace.finished = IF n = 0 THEN -1 ELSE env_log[n].done

\* a returned trace of two actions whose first step was done and whose last was not
C19_Witness ==
    /\ pc = "returned"
    /\ Len(trace_actions) = 2
    /\ env_log[1].done = 1
    /\ env_log[2].done = 0
    /\ env_log[1].state # env_log[2].state
    /\ resulting_trace.finished = 0

(***************************************************************************)
(* get_trial_by_trial_likelihoods.  The cache file is [exists, content];   *)
(* a dictionary is a function from its keys.  What                         *)
(* compute_trial_by_trial_likelihoods returns for an entry is an opaque    *)
(* value of Likelihoods, or the call raises.                               *)
(***************************************************************************)
ParameterStrings == {"full", "no_temp", "no_cost"}
ExcludedParameters == {"", "temp"}
Likelihoods == {1, 2}
Raises == "raises"

\* the dictionaries with keys in keys and values in values
Dicts(keys, values) == UNION {[ks -> values] : ks \in SUBSET keys}

\* the item lists of a dictionary: no key twice
ModelsMappings ==
    {m \in UNION {[1..n -> ParameterStrings \X ExcludedParameters] : n \in 0..MaxModels} :
        \A i, j \in 1..Len(m) : m[i][1] = m[j][1] => i = j}

NoFile == [exists |-> FALSE, content |-> <<>>]
Files ==
    {NoFile} \cup {[exists |-> TRUE, content |-> c] : c \in Dicts(ParameterStrings, Likelihoods)}

\* a store under the excluded parameters instead of the string
StoreEntry_ByParameters(all_trial_by_trial, item, curr_trial_by_trial) ==
    [k \in DOMAIN all_trial_by_trial \cup {item[2]} |->
        IF k = item[2] THEN curr_trial_by_trial ELSE all_trial_by_trial[k]]

\* all_trial_by_trial[excluded_parameter_string] = curr_trial_by_trial
StoreEntry(all_trial_by_trial, item, curr_trial_by_trial) ==
    [k \in DOMAIN all_trial_by_trial \cup {item[1]} |->
        IF k = item[1] THEN curr_trial_by_trial ELSE all_trial_by_trial[k]]

\* the loop over the items, with the results the computations returned
RECURSIVE ComputeAll(_, _)
ComputeAll(results, n) ==
    IF n = 0 THEN <<>>
    ELSE StoreEntry(ComputeAll(results, n - 1), models_mapping[n], results[n])

\* the computations a call made: one per item, in item order
Computed(results) ==
    [k \in 1..Len(results) |->
        [excluded_parameters |-> models_mapping[k][2], result |-> results[k]]]

\* the second loop: one block of rows per item, read from all_trial_by_trial
AvgTrial(all_trial_by_trial) ==
    [k \in 1..Len(models_mapping) |->
        <<models_mapping[k][2], all_trial_by_trial[models_mapping[k][1]]>>]

\* the second loop looks every string up in all_trial_by_trial
HasAllKeys(all_trial_by_trial) ==
    \A k \in 1..Len(models_mapping) : models_mapping[k][1] \in DOMAIN all_trial_by_trial

InitCache ==
    /\ pc = "session"
    /\ trial_by_trial_file \in Files
    /\ models_mapping \in ModelsMappings
    /\ call_log = <<>>
    /\ trial_by_trial_df = <<>>
    /\ SelIdle
    /\ PriorIdle
    /\ TrialIdle
    /\ TraceIdle
    /\ SessionIdle

\* a call that finds the file: pickle.load, then the table
CacheHit ==
    /\ pc = "session"
    /\ Len(call_log) < MaxCalls
    /\ trial_by_trial_file.exists
    /\ LET all_trial_by_trial == trial_by_trial_file.content
           ok == HasAllKeys(all_trial_by_trial)
       IN /\ call_log' = Append(call_log,
                 [hit |-> TRUE, computed |-> <<>>, wrote |-> FALSE, raised |-> ~ok,
                  before |-> trial_by_trial_file, after |-> trial_by_trial_file])
          /\ trial_by_trial_df' =
                 IF ok THEN AvgTrial(all_trial_by_trial) ELSE trial_by_trial_df
    /\ UNCHANGED <<pc, trial_by_trial_file, models_mapping, not_cache_vars>>

\* a call that finds no file and whose computations all return:
\* compute every item, pickle.dump, then the table
CacheMiss ==
    /\ pc = "session"
    /\ Len(call_log) < MaxCalls
    /\ ~trial_by_trial_file.exists
    /\ \E results \in [1..Len(models_mapping) -> Likelihoods] :
           LET all_trial_by_trial == ComputeAll(results, Len(models_mapping))
               written == [exists |-> TRUE, content |-> all_trial_by_trial]
           IN /\ trial_by_trial_file' = written
              /\ call_log' = Append(call_log,
                     [hit |-> FALSE, computed |-> Computed(results), wrote |-> TRUE,
                      raised |-> ~HasAllKeys(all_trial_by_trial),
                      before |-> trial_by_trial_file, after |-> written])
              /\ trial_by_trial_df' =
                     IF HasAllKeys(all_trial_by_trial)
                     THEN AvgTrial(all_trial_by_trial) ELSE trial_by_trial_df
    /\ UNCHANGED <<pc, models_mapping, not_cache_vars>>

\* a call that finds no file and whose computation of item n raises:
\* the exception leaves the function before pickle.dump
CacheMissFails ==
    /\ pc = "session"
    /\ Len(call_log) < MaxCalls
    /\ ~trial_by_trial_file.exists
    /\ \E n \in 1..Len(models_mapping) :
       \E results \in [1..(n - 1) -> Likelihoods] :
           call_log' = Append(call_log,
               [hit |-> FALSE,
                computed |-> Append(Computed(results),
                    [excluded_parameters |-> models_mapping[n][2], result |-> Raises]),
                wrote |-> FALSE, raised |-> TRUE,
                before |-> trial_by_trial_file, after |-> trial_by_trial_file])
    /\ UNCHANGED <<pc, trial_by_trial_file, models_mapping, trial_by_trial_df,
                   not_cache_vars>>

NextCache == CacheHit \/ CacheMiss \/ CacheMissFails

SpecCache == InitCache /\ [][NextCache]_vars

(***************************************************************************)
(* Properties of get_trial_by_trial_likelihoods                            *)
(***************************************************************************)
\* C11: a call that finds the cache file computes nothing and leaves the
\* file as it was; a call that finds none and completes computes each item
\* of the mapping once, writes the file, and the file holds each result
\* under its item's string; the call after a call that did not raise
\* finds the file and computes nothing.
C11_CacheShortCircuits ==
    \A i \in 1..Len(call_log) :
        LET call == call_log[i]
        IN /\ call.before.exists =>
                  /\ call.hit
                  /\ call.computed = <<>>
                  /\ ~call.wrote
                  /\ call.after = call.before
           /\ (~call.before.exists /\ call.wrote) =>
                  /\ Len(call.computed) = Len(models_mapping)
                  /\ \A k \in 1..Len(models_mapping) :
                         /\ call.computed[k].excluded_parameters = models_mapping[k][2]
                         /\ call.computed[k].result \in Likelihoods
                         /\ models_mapping[k][1] \in DOMAIN call.after.content
                         /\ call.after.content[models_mapping[k][1]] = call.computed[k].result
                  /\ DOMAIN call.after.content = {models_mapping[k][1] : k \in 1..Len(models_mapping)}
                  /\ call.after.exists
           /\ (~call.before.exists /\ ~call.raised) => call.wrote
           /\ (i > 1 /\ ~call_log[i - 1].raised) => (call.hit /\ call.computed = <<>>)
           /\ i = Len(call_log) => call.after = trial_by_trial_file
           /\ i > 1 => call.before = call_log[i - 1].after

\* a first call computed two items with different results and wrote them,
\* and a second call found the file
C11_Witness ==
    /\ Len(call_log) = 2
    /\ ~call_log[1].hit
    /\ call_log[1].wrote
    /\ Len(call_log[1].computed) = 2
    /\ call_log[1].computed[1].result # call_log[1].computed[2].result
    /\ models_mapping[1][2] = models_mapping[2][2]
    /\ call_log[2].hit
    /\ ~call_log[2].raised

(***************************************************************************)
(* AnalysisObject: __init__, load_optimization_data and                    *)
(* query_optimization_data.  One session, whose cost function has the      *)
(* constant_values of ConstantValues.  A table is a sequence of rows; a    *)
(* tuple of parameter names is a sequence of strings and the string "None" *)
(* is the sequence of its characters, so that set(model) is Range(model).  *)
(* A Model Name is the sequence of the pieces it is joined from.           *)
(***************************************************************************)
SessionPids == {1, 2}
Blocks == {"train", "test"}
RecordedClicks == {5}

\* the participant event tables: every participant has a trial in the
\* designated block, the trials its grid search was run on
TrialTables ==
    {t \in UNION {[1..n -> [pid : SessionPids, block : Blocks, num_clicks : RecordedClicks]] :
                     n \in 1..MaxTrialRows} :
        \A i \in 1..Len(t) :
            \E j \in 1..Len(t) : t[j].pid = t[i].pid /\ t[j].block \in DesignatedBlocks}

\* self.cost_details.cost_parameter_args and latex_mapping
CostParameterArgs == {"cost"}
LatexMapping == [cost |-> "c", extra |-> "e", temp |-> "\\beta"]

\* the order of sorted() on the parameter names
ParameterRank == [cost |-> 1, extra |-> 2, temp |-> 3]

RECURSIVE Sorted(_)
Sorted(S) ==
    IF S = {} THEN <<>>
    ELSE LET m == CHOOSE x \in S : \A y \in S : ParameterRank[x] <= ParameterRank[y]
         IN <<m>> \o Sorted(S \ {m})

RECURSIVE Concat(_)
\* the concatenation of a sequence of sequences (extend in a loop)
Concat(seqs) ==
    IF seqs = <<>> THEN <<>> ELSE Head(seqs) \o Concat(Tail(seqs))

RECURSIVE DropDuplicates(_)
\* drop_duplicates(): the first occurrence of every value, in order
DropDuplicates(s) ==
    IF s = <<>> THEN <<>>
    ELSE LET front == DropDuplicates(SubSeq(s, 1, Len(s) - 1))
             last == s[Len(s)]
         IN IF last \in Range(front) THEN front ELSE Append(front, last)

RECURSIVE DictOfItems(_)
\* the dictionary a sequence of assignments d[key] = value leaves
DictOfItems(items) ==
    IF items = <<>> THEN <<>>
    ELSE LET d == DictOfItems(SubSeq(items, 1, Len(items) - 1))
             last == items[Len(items)]
         IN [k \in DOMAIN d \cup {last[1]} |-> IF k = last[1] THEN last[2] ELSE d[k]]

\* what a grid-search file holds: the parameters the search ran over (the
\* models are their power set), the prior names, the mle of every random record
GridBases == {<<"cost", "temp">>, <<"cost", "extra", "temp">>}
GridPriors == {<<"uniform">>, <<"uniform", "shaped">>}
RandomRecords == {<<-60000>>, <<-60000, -61000>>}
GridFiles == [base : GridBases, priors : GridPriors, random : RandomRecords]

\* the files of the participants of a table: one grid search, run per
\* participant with its own base parameters
FilesFor(table) ==
    {f \in [{table[i].pid : i \in 1..Len(table)} -> GridFiles] :
        \A p, q \in DOMAIN f : f[p].priors = f[q].priors /\ f[p].random = f[q].random}

\* data["SoftmaxPolicy"][prior]: the models of a file, in key order, and
\* the one-row table of a model
GridModels == [base \in GridBases |-> powerset(base)]
ModelsOf(file) == GridModels[file.base]
PriorTerm == [uniform |-> -1386, shaped |-> -693]
ModelDf(pid, prior, model) ==
    LET mle == -50000 - 1000 * Len(model)
    IN <<[applied_policy |-> "SoftmaxPolicy", trace_pid |-> pid, mle |-> mle,
          map |-> mle + PriorTerm[prior]]>>

\* the string "None"
NoneString == <<"N", "o", "n", "e">>

\* random rows scored like softmax rows, with the prior term added
RandomRows_WithPriorTerm(pid, file) ==
    Concat([r \in 1..Len(file.random) |->
        [p \in 1..Len(file.priors) |->
            [applied_policy |-> "RandomPolicy", trace_pid |-> pid,
             mle |-> file.random[r], map |-> file.random[r] + PriorTerm[file.priors[p]],
             prior |-> file.priors[p], model |-> NoneString,
             model_name |-> <<"Null (Random)">>, number_parameters |-> 0]]])

\* the rows of the random records: one per record and prior
RandomRows(pid, file) ==
    Concat([r \in 1..Len(file.random) |->
        [p \in 1..Len(file.priors) |->
            [applied_policy |-> "RandomPolicy", trace_pid |-> pid,
             mle |-> file.random[r], map |-> file.random[r],
             prior |-> file.priors[p], model |-> NoneString,
             model_name |-> <<"Null (Random)">>, number_parameters |-> 0]]])

\* max(prior_dict, key=len): the first key of the largest length
AllParams(models) ==
    models[CHOOSE i \in 1..Len(models) :
               \A j \in 1..Len(models) :
                   /\ Len(models[j]) <= Len(models[i])
                   /\ j < i => Len(models[j]) < Len(models[i])]

\* set(model).intersection(included_parameters) == set()
HoldsNoIncluded(model, included) == Range(model) \cap included = {}

\* a test that lets every model through
ContainsMustContain_Always(model, all_params) == TRUE

\* must_contain.issubset(set(model))
ContainsMustContain(model, all_params) ==
    (Range(all_params) \ DOMAIN ConstantValues) \subseteq Range(model)

RECURSIVE JoinLatex(_)
\* ", ".join of the latex names of the parameters
JoinLatex(params) ==
    IF params = <<>> THEN <<>>
    ELSE IF Len(params) = 1 THEN <<LatexMapping[params[1]]>>
    ELSE <<LatexMapping[params[1]], ", ">> \o JoinLatex(Tail(params))

\* the Model Name of a model with these varied parameters
ModelName(varied_parameters) ==
    LET cost_params_in_model == varied_parameters \cap CostParameterArgs
        additional_params_in_model == varied_parameters \ CostParameterArgs
        model_name == IF cost_params_in_model # {}
                      THEN <<"$">> \o JoinLatex(Sorted(cost_params_in_model)) \o <<"$">>
                      ELSE <<"Null (Given Costs)">>
    IN IF additional_params_in_model # {}
       THEN model_name \o <<" with $">> \o JoinLatex(Sorted(additional_params_in_model))
                \o <<"$">>
       ELSE model_name

\* the models of a prior that pass both tests, in key order
KeptModels(file, included) ==
    LET models == ModelsOf(file)
    IN SelectSeq(models, LAMBDA model :
           /\ HoldsNoIncluded(model, included)
           /\ ContainsMustContain(model, AllParams(models)))

\* the rows of one kept model
SoftmaxRowsOfModel(pid, file, prior, model) ==
    LET varied_parameters == Range(AllParams(ModelsOf(file))) \ Range(model)
        model_df == ModelDf(pid, prior, model)
    IN [i \in 1..Len(model_df) |->
           model_df[i] @@ [prior |-> prior, model |-> model,
                           model_name |-> ModelName(varied_parameters),
                           number_parameters |-> Cardinality(varied_parameters)]]

\* the rows of one file: the random rows, then prior by prior, model by model
FileRows(pid, file, included) ==
    LET kept == KeptModels(file, included)
    IN RandomRows(pid, file)
       \o Concat([p \in 1..Len(file.priors) |->
              Concat([k \in 1..Len(kept) |->
                  SoftmaxRowsOfModel(pid, file, file.priors[p], kept[k])])])

\* the assignments to self.model_name_mapping of one file, in order
FileNames(file, included) ==
    LET kept == KeptModels(file, included)
        all_params == AllParams(ModelsOf(file))
    IN Concat([p \in 1..Len(file.priors) |->
           [k \in 1..Len(kept) |->
               <<Sorted(Range(kept[k])), ModelName(Range(all_params) \ Range(kept[k]))>>]])

\* a human table left as recorded
AddTerminalAction_None(mouselab_data) == mouselab_data

\* mouselab_data["num_clicks"] + 1
AddTerminalAction(mouselab_data) ==
    [i \in 1..Len(mouselab_data) |->
        [mouselab_data[i] EXCEPT !.num_clicks = @ + 1]]

\* the designated-block rows grouped by pid and summed, then merged on pid
ClickCount(mouselab_data, pid) ==
    SumOver({i \in 1..Len(mouselab_data) :
                /\ mouselab_data[i].pid = pid
                /\ mouselab_data[i].block \in DesignatedBlocks},
            [i \in 1..Len(mouselab_data) |-> mouselab_data[i].num_clicks])

\* np.log of 1..40 in milli-nats
LnClicks ==
    <<0, 693, 1099, 1386, 1609, 1792, 1946, 2079, 2197, 2303,
      2398, 2485, 2565, 2639, 2708, 2773, 2833, 2890, 2944, 2996,
      3045, 3091, 3135, 3178, 3219, 3258, 3296, 3332, 3367, 3401,
      3434, 3466, 3497, 3526, 3555, 3584, 3611, 3638, 3664, 3689>>

\* a criterion with the count in place of its logarithm
bic_PlainCount(llf, nobs, df_modelwc) == -2 * llf + df_modelwc * 1000 * nobs

\* statsmodels.tools.eval_measures.bic, in milli-nats
bic(llf, nobs, df_modelwc) == -2 * llf + df_modelwc * LnClicks[nobs]

\* the left merge of the click counts on trace_pid = pid
JoinClicks(full_df_rows, mouselab_data) ==
    [i \in 1..Len(full_df_rows) |->
        full_df_rows[i] @@
        [num_clicks |-> ClickCount(mouselab_data, full_df_rows[i].trace_pid)]]

\* full_df["bic"] = full_df.apply(...)
AddBic(full_df_rows) ==
    [i \in 1..Len(full_df_rows) |->
        full_df_rows[i] @@
        [bic |-> bic(full_df_rows[i].mle, full_df_rows[i].num_clicks,
                     full_df_rows[i].number_parameters)]]

\* the pids of the files, in the order of their first trial
FilePids(data) == DropDuplicates([i \in 1..Len(data) |-> data[i].pid])

\* the rows of all files, and the assignments to self.model_name_mapping
FullDfs(pids, files, included) ==
    Concat([k \in 1..Len(pids) |-> FileRows(pids[k], files[pids[k]], included)])
NameItems(pids, files, included) ==
    Concat([k \in 1..Len(pids) |-> FileNames(files[pids[k]], included)])

\* the table after the optional terminal action
MouselabData(sim, data) == IF sim THEN data ELSE AddTerminalAction(data)

\* load_optimization_data on a session with these fields: the table it
\* returns and the dfs and model_name_mapping it leaves
load_optimization_data(sim, included, files, data) ==
    [full_df |-> AddBic(JoinClicks(FullDfs(FilePids(data), files, included),
                                   MouselabData(sim, data))),
     dfs |-> MouselabData(sim, data),
     model_name_mapping |-> DictOfItems(NameItems(FilePids(data), files, included))]

\* the simulated branch of __init__: num_clicks = 1 and block = "test"
PreparedDfs(sim, data) ==
    IF sim
    THEN [i \in 1..Len(data) |-> [data[i] EXCEPT !.num_clicks = 1, !.block = "test"]]
    ELSE data

IncludedParameterSets == {{}, {"temp"}}

\* the session once self.dfs is built
InitSession ==
    /\ pc = "__init__"
    /\ simulated \in BOOLEAN
    /\ included_parameters \in IncludedParameterSets
    /\ dfs \in TrialTables
    /\ mle_and_map_files \in FilesFor(dfs)
    /\ optimization_data = <<>>
    /\ full_df = <<>>
    /\ model_name_mapping = <<>>
    /\ loads = 0
    /\ query = <<>>
    /\ query_result = <<>>
    /\ SelIdle
    /\ PriorIdle
    /\ TrialIdle
    /\ TraceIdle
    /\ CacheIdle

\* __init__ from the simulated test to the call of load_optimization_data
PrepareSession ==
    /\ pc = "__init__"
    /\ pc' = "loading"
    /\ dfs' = PreparedDfs(simulated, dfs)
    /\ UNCHANGED <<simulated, included_parameters, mle_and_map_files, optimization_data,
                   full_df, model_name_mapping, loads, query, query_result,
                   not_session_vars>>

\* self.optimization_data = self.load_optimization_data()
FirstLoad ==
    /\ pc = "loading"
    /\ pc' = "ready"
    /\ LET r == load_optimization_data(simulated, included_parameters,
                                       mle_and_map_files, dfs)
       IN /\ optimization_data' = r.full_df
          /\ full_df' = r.full_df
          /\ dfs' = r.dfs
          /\ model_name_mapping' = r.model_name_mapping
    /\ loads' = loads + 1
    /\ UNCHANGED <<simulated, included_parameters, mle_and_map_files, query,
                   query_result, not_session_vars>>

\* a later call of load_optimization_data on the session
LoadAgain ==
    /\ pc = "ready"
    /\ loads < MaxLoads
    /\ LET r == load_optimization_data(simulated, included_parameters,
                                       mle_and_map_files, dfs)
       IN /\ full_df' = r.full_df
          /\ dfs' = r.dfs
          /\ model_name_mapping' = r.model_name_mapping
    /\ loads' = loads + 1
    /\ UNCHANGED <<pc, simulated, included_parameters, mle_and_map_files,
                   optimization_data, query, query_result, not_session_vars>>

NextSession == PrepareSession \/ FirstLoad \/ LoadAgain

SpecSession == InitSession /\ [][NextSession]_vars

\* an argument left out (None) or given
None == [is_none |-> TRUE, value |-> <<>>]
Given(value) == [is_none |-> FALSE, value |-> value]

\* analysis_details.prior
DefaultPrior == "uniform"
PriorArguments == {None, Given("uniform"), Given("shaped")}
ExcludedArguments == {None, Given(<<>>), Given(<<"temp">>), Given(<<"extra">>)}

\* query_optimization_data(prior, excluded_parameters) on a table
query_optimization_data(data, prior_argument, excluded_parameters) ==
    LET prior == IF prior_argument.is_none THEN DefaultPrior ELSE prior_argument.value
        subset ==
            SelectSeq(data, LAMBDA row :
                row.applied_policy = "SoftmaxPolicy" /\ row.prior = prior)
            \o SelectSeq(data, LAMBDA row :
                row.applied_policy = "RandomPolicy" /\ row.prior = prior)
    IN IF excluded_parameters.is_none THEN subset
       ELSE IF excluded_parameters.value = <<>>
       THEN SelectSeq(subset, LAMBDA row : Range(row.model) = {})
       ELSE SelectSeq(subset, LAMBDA row :
                Range(row.model) = Range(excluded_parameters.value))

\* the session once __init__ has returned
InitQuery ==
    /\ pc = "ready"
    /\ simulated \in BOOLEAN
    /\ included_parameters \in IncludedParameterSets
    /\ \E table \in TrialTables :
           /\ mle_and_map_files \in FilesFor(table)
           /\ LET r == load_optimization_data(simulated, included_parameters,
                           mle_and_map_files, PreparedDfs(simulated, table))
              IN /\ dfs = r.dfs
                 /\ optimization_data = r.full_df
                 /\ full_df = r.full_df
                 /\ model_name_mapping = r.model_name_mapping
    /\ loads = 1
    /\ query = <<>>
    /\ query_result = <<>>
    /\ SelIdle
    /\ PriorIdle
    /\ TrialIdle
    /\ TraceIdle
    /\ CacheIdle

\* a call of query_optimization_data
Query ==
    /\ pc = "ready"
    /\ \E prior \in PriorArguments, excluded_parameters \in ExcludedArguments :
           /\ query' = <<prior, excluded_parameters>>
           /\ query_result' =
                  query_optimization_data(optimization_data, prior, excluded_parameters)
    /\ UNCHANGED <<pc, simulated, included_parameters, dfs, mle_and_map_files,
                   optimization_data, full_df, model_name_mapping, loads,
                   not_session_vars>>

NextQuery == Query

SpecQuery == InitQuery /\ [][NextQuery]_vars

(***************************************************************************)
(* Properties of the session                                               *)
(***************************************************************************)
\* the largest model of a file and the parameters every kept model must hold
LargestModel(file) ==
    CHOOSE m \in Range(ModelsOf(file)) : \A n \in Range(ModelsOf(file)) : Len(n) <= Len(m)
MustContain(file) == Range(LargestModel(file)) \ DOMAIN ConstantValues

\* the rows of a table with this policy
RowsWith(table, applied_policy) ==
    {i \in 1..Len(table) : table[i].applied_policy = applied_policy}

\* the clicks of a participant over the designated blocks
DesignatedClicks(data, pid, added) ==
    SumOver({i \in 1..Len(data) : data[i].pid = pid /\ data[i].block \in DesignatedBlocks},
            [i \in 1..Len(data) |-> data[i].num_clicks + added])

\* C12: for every prior and every excluded-parameter argument the query
\* returns the SoftmaxPolicy rows of the prior whose model matches the
\* argument together with all RandomPolicy rows of the prior, and no row
\* of another prior.
C12_QueryKeepsRandomRows ==
    query # <<>> =>
        LET prior == IF query[1].is_none THEN DefaultPrior ELSE query[1].value
            excluded == query[2]
            softmax == SelectSeq(optimization_data, LAMBDA row :
                           /\ row.applied_policy = "SoftmaxPolicy"
                           /\ row.prior = prior
                           /\ excluded.is_none \/ Range(row.model) = Range(excluded.value))
            random == SelectSeq(optimization_data, LAMBDA row :
                          row.applied_policy = "RandomPolicy" /\ row.prior = prior)
        IN query_result = softmax \o random

\* C13: a call of load_optimization_data on human data adds exactly one to
\* the num_clicks of every trial, and the sums of the increased values are
\* the num_clicks the bic of the returned rows is computed from; on
\* simulated data it leaves every num_clicks as it was.
C13_TerminalActionAdded ==
    [][loads' = loads + 1 =>
        LET added == IF simulated THEN 0 ELSE 1
        IN /\ Len(dfs') = Len(dfs)
           /\ \A i \in 1..Len(dfs) :
                  /\ dfs'[i].num_clicks = dfs[i].num_clicks + added
                  /\ dfs'[i].pid = dfs[i].pid
                  /\ dfs'[i].block = dfs[i].block
           /\ \A k \in 1..Len(full_df') :
                  LET nobs == DesignatedClicks(dfs, full_df'[k].trace_pid, added)
                  IN /\ full_df'[k].num_clicks = nobs
                     /\ full_df'[k].bic =
                            -2 * full_df'[k].mle
                            + full_df'[k].number_parameters * LnClicks[nobs]]_vars

\* the first load of a human session: a participant whose one designated
\* trial now has 6 clicks, 6 being the num_clicks of its rows
C13_Witness ==
    /\ pc = "ready"
    /\ loads = 1
    /\ ~simulated
    /\ \E k \in 1..Len(full_df) :
           /\ full_df[k].num_clicks = 6
           /\ full_df[k].number_parameters > 0
           /\ Cardinality({i \in 1..Len(dfs) :
                              /\ dfs[i].pid = full_df[k].trace_pid
                              /\ dfs[i].block \in DesignatedBlocks
                              /\ dfs[i].num_clicks = 6}) = 1

\* C14: a model of a file that does not hold the whole must-contain set of
\* the file constant gives no row of the table and no entry of
\* model_name_mapping: every SoftmaxPolicy row comes from a model holding
\* the must-contain set of its file, and the keys of model_name_mapping are
\* the sorted models that hold the must-contain set of a file they occur in
\* (and no included parameter).
C14_MustContainModelsOnly ==
    pc = "ready" =>
        /\ \A k \in RowsWith(full_df, "SoftmaxPolicy") :
               LET file == mle_and_map_files[full_df[k].trace_pid]
               IN /\ full_df[k].model \in Range(ModelsOf(file))
                  /\ MustContain(file) \subseteq Range(full_df[k].model)
        /\ DOMAIN model_name_mapping =
               {Sorted(Range(m)) :
                   m \in UNION {{n \in Range(ModelsOf(mle_and_map_files[pid])) :
                                    /\ MustContain(mle_and_map_files[pid]) \subseteq Range(n)
                                    /\ Range(n) \cap included_parameters = {}} :
                                pid \in DOMAIN mle_and_map_files}}

\* a file searched over a larger base: its rows all hold "extra" constant
\* and no entry stands for the model that holds only "cost" constant
C14_Witness ==
    /\ pc = "ready"
    /\ \E pid \in DOMAIN mle_and_map_files :
           /\ MustContain(mle_and_map_files[pid]) = {"extra"}
           /\ \E k \in RowsWith(full_df, "SoftmaxPolicy") :
                  /\ full_df[k].trace_pid = pid
                  /\ full_df[k].model = <<"cost", "extra">>
    /\ <<"cost">> \notin DOMAIN model_name_mapping
    /\ <<"cost", "extra">> \in DOMAIN model_name_mapping

\* C15: for every random record of every file and every prior of the file
\* the table has exactly one row, with map equal to the mle of the record,
\* Model Name "Null (Random)" and Number Parameters 0, and the table has no
\* other RandomPolicy row.
C15_OneRandomRowPerRecordAndPrior ==
    pc = "ready" =>
        /\ \A pid \in DOMAIN mle_and_map_files :
               LET file == mle_and_map_files[pid]
               IN \A p \in 1..Len(file.priors), r \in 1..Len(file.random) :
                      Cardinality({k \in RowsWith(full_df, "RandomPolicy") :
                                      /\ full_df[k].trace_pid = pid
                                      /\ full_df[k].prior = file.priors[p]
                                      /\ full_df[k].mle = file.random[r]}) = 1
        /\ \A k \in RowsWith(full_df, "RandomPolicy") :
               LET file == mle_and_map_files[full_df[k].trace_pid]
               IN /\ full_df[k].prior \in Range(file.priors)
                  /\ full_df[k].mle \in Range(file.random)
                  /\ full_df[k].map = full_df[k].mle
                  /\ full_df[k].model_name = <<"Null (Random)">>
                  /\ full_df[k].number_parameters = 0
        /\ optimization_data # <<>> =>
               \A k \in RowsWith(optimization_data, "RandomPolicy") :
                   /\ optimization_data[k].map = optimization_data[k].mle
                   /\ optimization_data[k].number_parameters = 0

\* two random records under two priors: four random rows of one participant
C15_Witness ==
    /\ pc = "ready"
    /\ \E pid \in DOMAIN mle_and_map_files :
           /\ Len(mle_and_map_files[pid].priors) = 2
           /\ Len(mle_and_map_files[pid].random) = 2
           /\ Cardinality({k \in RowsWith(full_df, "RandomPolicy") :
                              full_df[k].trace_pid = pid}) = 4

\* C16: once initialization has finished no call changes dfs or
\* optimization_data.
C16_FieldsWriteOnce ==
    [][pc = "ready" => (dfs' = dfs /\ optimization_data' = optimization_data)]_vars

\* C17: every row of the assembled table has bic = -2*mle + Number
\* Parameters * ln(nobs), where Number Parameters counts the parameters of
\* the largest model of the row's file that the row's model does not hold
\* constant (0 for a random row) and nobs is the participant's clicks summed
\* over the trials of the designated blocks.
C17_BicFormula ==
    pc = "ready" =>
        \A k \in 1..Len(full_df) :
            LET row == full_df[k]
                file == mle_and_map_files[row.trace_pid]
                nobs == DesignatedClicks(dfs, row.trace_pid, 0)
                df_modelwc == IF row.applied_policy = "RandomPolicy" THEN 0
                              ELSE Cardinality(Range(LargestModel(file)) \ Range(row.model))
            IN /\ row.number_parameters = df_modelwc
               /\ row.num_clicks = nobs
               /\ row.bic = -2 * row.mle + df_modelwc * LnClicks[nobs]

\* mle = -50, two free parameters and 12 clicks: bic = 100 + 2 ln(12)
C17_Witness ==
    /\ pc = "ready"
    /\ \E k \in 1..Len(full_df) :
           /\ full_df[k].mle = -50000
           /\ full_df[k].number_parameters = 2
           /\ full_df[k].num_clicks = 12
           /\ full_df[k].bic = 104970

====
